---- MODULE Spec2Model ----
(***************************************************************************)
(* Model of the tracer component (createTracerComponent) and of the trace  *)
(* context helpers (buildTraceContext, buildTraceString, generate*Id).     *)
(*                                                                         *)
(* Execution branches are the asynchronous execution contexts Node's       *)
(* AsyncLocalStorage tells apart: each branch has its own stack of store   *)
(* bindings, one per span() activation it is inside of.  Steps of          *)
(* different branches interleave freely (a branch that is not taking a     *)
(* step is suspended).  Trace state mappings and data payloads are heap    *)
(* objects: a context holds a reference to them, as in JavaScript.         *)
(***************************************************************************)
EXTENDS Integers, Sequences, FiniteSets, TLC

\* ------------------------------------------------------------------ bounds
MaxIds    == 3    \* ids drawn from the random generator in one run
MaxWrites == 2    \* calls in one run of the members that write (mutators, freezing reads)

\* ------------------------------------------------------------- JS values
\* Every JavaScript value is a pair <<type tag, payload>>.
Undefined == <<"undefined", 0>>
Null      == <<"null", 0>>
Num(n)    == <<"number", n>>
Str(s)    == <<"string", s>>
Obj(n)    == <<"object", n>>      \* reference to a trace state mapping
Data(n)   == <<"data", n>>        \* reference to a data payload object
SpanId(n) == <<"spanId", n>>      \* n-th id drawn by generateSpanId
TraceId(n) == <<"traceId", n>>    \* n-th id drawn by generateTraceId
Ext(n)    == <<"external", n>>    \* id string supplied by the host in a seed
Bool(x)   == <<"boolean", x>>
Map(es)   == <<"map", es>>        \* a trace state mapping, as read by a caller
Text(ts)  == <<"text", ts>>       \* a built string, as the sequence of its parts

INVALID_SPAN_ID == <<"spanId", 0>>
NotInSpanError  == "NotInSpanError"
TypeError       == "TypeError"

Branches  == {"b1", "b2"}
SpanNames == {"test span"}
Keys      == {"aKey", "anotherKey"}
SeedNames == {"s1", "s2"}
NoSeed    == "none"

VARIABLES
    stack,      \* stack[b]: the span() activations branch b is inside of
    heap,       \* heap[o]: the trace state mapping object o
    frozenData, \* the data payload objects Object.freeze was applied to
    random,     \* number of ids drawn from randomBytes so far
    writes,     \* number of calls made so far of the members that write
    last        \* the last call made: who, what, and how it completed

vars == <<stack, heap, frozenData, random, writes, last>>

\* ------------------------------------------------------------------ hosts
\* The seed records the hosts pass to span(): s1 is the default context of
\* the tests (version and traceFlags are the strings '00') with the trace
\* state { aKey: 'aValue' }; s2 is a context typed as the interfaces declare
\* it (numbers), with a data payload and no trace state.
seeds ==
    [s \in SeedNames |->
        IF s = "s1"
        THEN [version |-> Str("00"), traceId |-> Ext(1), parentId |-> Ext(2),
              traceFlags |-> Str("00"), traceState |-> Obj(1), data |-> Undefined]
        ELSE [version |-> Num(1), traceId |-> Ext(3), parentId |-> Ext(4),
              traceFlags |-> Num(1), traceState |-> Undefined, data |-> Data(1)]]

\* the heap when the component is created: the trace state of s1
InitialHeap == <<[entries |-> <<<<"aKey", "aValue">>>>, frozen |-> FALSE]>>

\* the arguments the hosts call the mutators with
SetInputs == {<<"aKey", "anotherValue">>, <<"anotherKey", "anotherValue">>}
DataInputs == {Data(2)}

\* ------------------------------------------------------------ completions
Return(v) == [kind |-> "return", value |-> v]
Throw(e)  == [kind |-> "throw", error |-> e]

\* ------------------------------------------------ trace state mapping objects
\* A mapping is the sequence of its <<key, value>> entries in iteration
\* (insertion) order.
RECURSIVE IndexOf(_, _, _)
IndexOf(entries, key, i) ==
    IF i > Len(entries) THEN 0
    ELSE IF entries[i][1] = key THEN i
    ELSE IndexOf(entries, key, i + 1)

HasKey(entries, key) == IndexOf(entries, key, 1) # 0

\* obj[key] = value
SetEntry(entries, key, value) ==
    IF HasKey(entries, key)
    THEN [entries EXCEPT ![IndexOf(entries, key, 1)] = <<key, value>>]
    ELSE Append(entries, <<key, value>>)

\* C22 mutant: deleting a key that is there empties the mapping
DeleteEntryClears(entries, key) ==
    IF IndexOf(entries, key, 1) = 0 THEN entries ELSE <<>>

\* delete obj[key]
DeleteEntry(entries, key) ==
    LET i == IndexOf(entries, key, 1) IN
    IF i = 0 THEN entries
    ELSE SubSeq(entries, 1, i - 1) \o SubSeq(entries, i + 1, Len(entries))

\* new object: the smallest unused reference
NewObj == CHOOSE o \in 1..(Cardinality(DOMAIN heap) + 1) : o \notin DOMAIN heap


\* ------------------------------------------------------------ logic.ts
\* randomBytes(length).toString('hex'): the n-th draw of the process is a
\* value never drawn before.
generateRandomBytesHexString(n) == n
generateTraceId(n) == TraceId(generateRandomBytesHexString(n))
generateSpanId(n)  == SpanId(generateRandomBytesHexString(n))

\* a ?? b
Coalesce(a, b) == IF a = Undefined \/ a = Null THEN b ELSE a

\* C23 mutant: the span id is the draw made before this one
buildTraceContextReusesDraw(f, n) ==
    [name       |-> f.name,
     id         |-> generateSpanId(n - 1),
     parentId   |-> Coalesce(f.parentId, INVALID_SPAN_ID),
     traceId    |-> f.traceId,
     version    |-> f.version,
     traceFlags |-> f.traceFlags,
     traceState |-> f.traceState,
     data       |-> f.data]

\* buildTraceContext(fields), the span id being draw n of the generator
buildTraceContext(f, n) ==
    [name       |-> f.name,
     id         |-> generateSpanId(n),
     parentId   |-> Coalesce(f.parentId, INVALID_SPAN_ID),
     traceId    |-> f.traceId,
     version    |-> f.version,
     traceFlags |-> f.traceFlags,
     traceState |-> f.traceState,
     data       |-> f.data]

\* Number(value) for the values the hosts of the model pass
StringToNumber(s) ==
    CASE s = "00" -> 0
      [] s = "01" -> 1
      [] s = "0"  -> 0
      [] s = "1"  -> 1

Number(v) == IF v[1] = "string" THEN Num(StringToNumber(v[2])) ELSE v

\* ------------------------------------------------------- AsyncLocalStorage
\* asyncLocalStorage.getStore() !== undefined on branch b
HasStore(b) == Len(stack[b]) > 0
\* asyncLocalStorage.getStore() on branch b, when it is defined
getStore(b) == stack[b][Len(stack[b])].ctx

\* What the accessors can observe of a context: its id, its trace fields,
\* the contents of its trace state mapping and its data.
TraceStateOf(ctx) ==
    IF ctx.traceState = Undefined THEN Null ELSE Map(heap[ctx.traceState[2]].entries)

View(ctx) ==
    [id         |-> ctx.id,
     traceId    |-> ctx.traceId,
     parentId   |-> ctx.parentId,
     version    |-> ctx.version,
     traceFlags |-> ctx.traceFlags,
     traceState |-> TraceStateOf(ctx),
     data       |-> Coalesce(ctx.data, Null)]

\* The binding of branch b: no context, or the view of the bound context.
Binding(b) ==
    IF HasStore(b) THEN [bound |-> TRUE, view |-> View(getStore(b))]
    ELSE [bound |-> FALSE]

\* Objects still referenced once the frames of `stacks` are all that is left.
Referenced(stacks) ==
    {seeds[s].traceState[2] : s \in {x \in SeedNames : seeds[x].traceState # Undefined}}
    \cup {stacks[p[1]][p[2]].ctx.traceState[2] :
            p \in {p \in Branches \X (1..MaxIds) :
                            /\ p[2] <= Len(stacks[p[1]])
                            /\ stacks[p[1]][p[2]].ctx.traceState # Undefined}}

Collect(stacks, h) == [o \in (DOMAIN h) \cap Referenced(stacks) |-> h[o]]

\* ------------------------------------------------------------------ span
\* The context span(name, work, traceContext) builds on branch b, in each of
\* its three cases.  seed names the traceContext argument (NoSeed: not given).
\* if (traceContext)
seededContext(name, seed) ==
    buildTraceContext(
        [name       |-> name,
         parentId   |-> seeds[seed].parentId,
         traceId    |-> seeds[seed].traceId,
         version    |-> Number(seeds[seed].version),
         traceFlags |-> Number(seeds[seed].traceFlags),
         traceState |-> seeds[seed].traceState,
         data       |-> seeds[seed].data], random + 1)

\* C6 mutant: the child is linked to the span id of its parent
childContextLinkedToSpanId(b, name) ==
    buildTraceContext(
        [name       |-> name,
         parentId   |-> getStore(b).id,
         traceId    |-> getStore(b).traceId,
         version    |-> getStore(b).version,
         traceFlags |-> getStore(b).traceFlags,
         traceState |-> getStore(b).traceState,
         data       |-> Undefined], random + 1)

\* C21 mutant: the child inherits the data of its parent
childContextInheritsData(b, name) ==
    buildTraceContext(
        [name       |-> name,
         parentId   |-> getStore(b).traceId,
         traceId    |-> getStore(b).traceId,
         version    |-> getStore(b).version,
         traceFlags |-> getStore(b).traceFlags,
         traceState |-> getStore(b).traceState,
         data       |-> getStore(b).data], random + 1)

\* else if (parentTraceContext)
childContext(b, name) ==
    buildTraceContext(
        [name       |-> name,
         parentId   |-> getStore(b).traceId,
         traceId    |-> getStore(b).traceId,
         version    |-> getStore(b).version,
         traceFlags |-> getStore(b).traceFlags,
         traceState |-> getStore(b).traceState,
         data       |-> Undefined], random + 1)

\* C8 mutant: a root span is flagged as sampled
rootContextSampled(name) ==
    buildTraceContext(
        [name       |-> name,
         parentId   |-> INVALID_SPAN_ID,
         traceId    |-> generateTraceId(random + 1),
         version    |-> Num(0),
         traceFlags |-> Num(1),
         traceState |-> Undefined,
         data       |-> Undefined], random + 2)

\* else: set up default values
rootContext(name) ==
    buildTraceContext(
        [name       |-> name,
         parentId   |-> INVALID_SPAN_ID,
         traceId    |-> generateTraceId(random + 1),
         version    |-> Num(0),
         traceFlags |-> Num(0),
         traceState |-> Undefined,
         data       |-> Undefined], random + 2)

\* C5 mutant: the enclosing span is looked at before the seed
newContextParentFirst(b, name, seed) ==
    IF HasStore(b) THEN childContext(b, name)
    ELSE IF seed # NoSeed THEN seededContext(name, seed)
    ELSE rootContext(name)

\* Lines 18-48 of span: the precedence of the three cases.
newContext(b, name, seed) ==
    IF seed # NoSeed THEN seededContext(name, seed)
    ELSE IF HasStore(b) THEN childContext(b, name)
    ELSE rootContext(name)

\* ids drawn by a span entry
Draws(b, seed) == IF seed = NoSeed /\ ~HasStore(b) THEN 2 ELSE 1

\* span(name, work, seed) up to the point where work starts running inside
\* asyncLocalStorage.run(newContext, work).
span(b, name, seed) ==
    /\ random + Draws(b, seed) <= MaxIds
    /\ stack' = [stack EXCEPT ![b] = Append(@,
                    [ctx    |-> newContext(b, name, seed),
                     seed   |-> seed,
                     before |-> Binding(b)])]
    /\ random' = random + Draws(b, seed)
    /\ last' = [branch |-> b, op |-> "span", args |-> <<name, seed>>,
                out |-> Return(Undefined)]
    /\ UNCHANGED <<heap, frozenData, writes>>

\* C17 mutant: a raise of the work is swallowed
runSwallowsRaise(completion) ==
    IF completion.kind = "throw" THEN Return(Undefined) ELSE completion

\* return asyncLocalStorage.run(newContext, tracedFunction): what the call
\* completes with when tracedFunction completes with `completion`.  run calls
\* the function and hands back what it returned; a raise propagates.
run(completion) == completion

\* The work of the innermost span of branch b completes (it returns a value
\* or raises): asyncLocalStorage.run restores the previous store and span
\* completes with what run completes with.  args records the completion of
\* the work, out the completion of span.
spanExit(b, completion) ==
    /\ HasStore(b)
    /\ stack' = [stack EXCEPT ![b] = SubSeq(@, 1, Len(@) - 1)]
    /\ heap' = Collect(stack', heap)
    /\ last' = [branch |-> b, op |-> "spanExit", args |-> <<completion>>,
                out |-> run(completion)]
    /\ UNCHANGED <<frozenData, random, writes>>

\* ------------------------------------------------------------- accessors
\* Each operator is the completion of the call on branch b in the current
\* state: Return(value) or Throw(error).

\* C16 mutant: the fields are tested for truthiness, not against undefined
isInsideOfTraceSpanTruthy(b) ==
    Return(Bool(/\ HasStore(b)
                /\ getStore(b).parentId # Undefined
                /\ getStore(b).traceId # Undefined
                /\ getStore(b).traceFlags \notin {Undefined, Num(0)}
                /\ getStore(b).version \notin {Undefined, Num(0)}))

isInsideOfTraceSpan(b) ==
    Return(Bool(/\ HasStore(b)
                /\ getStore(b).parentId # Undefined
                /\ getStore(b).traceId # Undefined
                /\ getStore(b).traceFlags # Undefined
                /\ getStore(b).version # Undefined))

getSpanId(b) ==
    IF ~HasStore(b) THEN Throw(NotInSpanError)
    ELSE Return(getStore(b).id)

getTrace(b) ==
    IF ~HasStore(b) THEN Throw(NotInSpanError)
    ELSE Return([traceId    |-> getStore(b).traceId,
                 version    |-> getStore(b).version,
                 parentId   |-> getStore(b).parentId,
                 traceFlags |-> getStore(b).traceFlags])

\* C9 mutant: the child trace keeps the parent id of the current trace
getTraceChildKeepsParent(b) ==
    IF ~HasStore(b) THEN Throw(NotInSpanError)
    ELSE Return([traceId    |-> getStore(b).traceId,
                 version    |-> getStore(b).version,
                 parentId   |-> getStore(b).parentId,
                 traceFlags |-> getStore(b).traceFlags])

getTraceChild(b) ==
    IF ~HasStore(b) THEN Throw(NotInSpanError)
    ELSE Return([traceId    |-> getStore(b).traceId,
                 version    |-> getStore(b).version,
                 parentId   |-> getStore(b).id,
                 traceFlags |-> getStore(b).traceFlags])

\* value.toString(16): hexadecimal digits of a number, a string unchanged
HexDigits == <<"0", "1", "2", "3", "4", "5", "6", "7", "8", "9",
               "a", "b", "c", "d", "e", "f">>

RECURSIVE HexOf(_)
HexOf(n) == IF n < 16 THEN <<HexDigits[n + 1]>>
            ELSE HexOf(n \div 16) \o <<HexDigits[(n % 16) + 1]>>

ToString16(v) == IF v[1] = "number" THEN HexOf(v[2]) ELSE <<v[2]>>

buildTraceString(traceParent) ==
    Text(ToString16(traceParent.version) \o <<"-", traceParent.traceId, "-",
         traceParent.parentId, "-">> \o ToString16(traceParent.traceFlags))

getTraceString(b) ==
    IF getTrace(b).kind = "throw" THEN getTrace(b)
    ELSE Return(buildTraceString(getTrace(b).value))

getTraceChildString(b) ==
    IF getTraceChild(b).kind = "throw" THEN getTraceChild(b)
    ELSE Return(buildTraceString(getTraceChild(b).value))

\* getTraceState returns the mapping object itself (or null), frozen
getTraceState(b) ==
    IF ~HasStore(b) THEN Throw(NotInSpanError)
    ELSE Return(TraceStateOf(getStore(b)))

\* Object.entries(traceState).reduce((acc, curr, index, arr) =>
\*   `${acc}=${curr}${index !== arr.length - 1 ? ',' : ''}`, ''),
\* curr being the array [key, value], which renders as key,value
RECURSIVE ReduceEntries(_, _, _)
ReduceEntries(acc, entries, index) ==
    IF index > Len(entries) THEN acc
    ELSE ReduceEntries(
            acc \o <<"=", entries[index][1], ",", entries[index][2]>>
                \o (IF index # Len(entries) THEN <<",">> ELSE <<>>),
            entries, index + 1)

getTraceStateString(b) ==
    IF getTraceState(b).kind = "throw" THEN getTraceState(b)
    ELSE IF getTraceState(b).value # Null /\ Len(getTraceState(b).value[2]) > 0
         THEN Return(Text(ReduceEntries(<<>>, getTraceState(b).value[2], 1)))
         ELSE Return(Undefined)

getContextData(b) ==
    IF ~HasStore(b) THEN Throw(NotInSpanError)
    ELSE Return(Coalesce(getStore(b).data, Null))

\* -------------------------------------------------------------- mutators
\* The modules are strict mode code: a write to, or a delete of an own
\* property of, a frozen object throws a TypeError.
setContextData(b, data) ==
    IF ~HasStore(b) THEN Throw(NotInSpanError)
    ELSE Return(Undefined)

setTraceStateProperty(b, key, value) ==
    IF ~HasStore(b) THEN Throw(NotInSpanError)
    ELSE IF getStore(b).traceState # Undefined
            /\ heap[getStore(b).traceState[2]].frozen
         THEN Throw(TypeError)
         ELSE Return(Undefined)

\* C4 mutant: the check for a bound context is missing
deleteTraceStatePropertyUnguarded(b, key) ==
    IF HasStore(b) /\ getStore(b).traceState # Undefined
       /\ heap[getStore(b).traceState[2]].frozen
       /\ HasKey(heap[getStore(b).traceState[2]].entries, key)
    THEN Throw(TypeError)
    ELSE Return(Undefined)

deleteTraceStateProperty(b, key) ==
    IF ~HasStore(b) THEN Throw(NotInSpanError)
    ELSE IF getStore(b).traceState # Undefined
            /\ heap[getStore(b).traceState[2]].frozen
            /\ HasKey(heap[getStore(b).traceState[2]].entries, key)
         THEN Throw(TypeError)
         ELSE Return(Undefined)

\* currentContext.field = value on the store of branch b
SetStoreField(b, field, value) ==
    [stack EXCEPT ![b][Len(stack[b])].ctx[field] = value]

\* ----------------------------------------------------------------- steps
\* a call of a member that writes to a context or to an object
Write == writes < MaxWrites /\ writes' = writes + 1

\* One step per call of a member of the component, made by the code that
\* runs on branch b (inside of its innermost span, or outside of any).
Called(b, op, args, completion) ==
    last' = [branch |-> b, op |-> op, args |-> args, out |-> completion]

IsInsideOfTraceSpan(b) ==
    /\ Called(b, "isInsideOfTraceSpan", <<>>, isInsideOfTraceSpan(b))
    /\ UNCHANGED <<stack, heap, frozenData, random, writes>>

GetSpanId(b) ==
    /\ Called(b, "getSpanId", <<>>, getSpanId(b))
    /\ UNCHANGED <<stack, heap, frozenData, random, writes>>

GetTrace(b) ==
    /\ Called(b, "getTrace", <<>>, getTrace(b))
    /\ UNCHANGED <<stack, heap, frozenData, random, writes>>

GetTraceString(b) ==
    /\ Called(b, "getTraceString", <<>>, getTraceString(b))
    /\ UNCHANGED <<stack, heap, frozenData, random, writes>>

GetTraceChild(b) ==
    /\ Called(b, "getTraceChild", <<>>, getTraceChild(b))
    /\ UNCHANGED <<stack, heap, frozenData, random, writes>>

GetTraceChildString(b) ==
    /\ Called(b, "getTraceChildString", <<>>, getTraceChildString(b))
    /\ UNCHANGED <<stack, heap, frozenData, random, writes>>

\* Object.freeze(currentContext.traceState ?? null) freezes the mapping the
\* context holds
FreezeTraceState(b) ==
    IF HasStore(b) /\ getStore(b).traceState # Undefined
    THEN [heap EXCEPT ![getStore(b).traceState[2]].frozen = TRUE]
    ELSE heap

GetTraceState(b) ==
    /\ Write
    /\ Called(b, "getTraceState", <<>>, getTraceState(b))
    /\ heap' = FreezeTraceState(b)
    /\ UNCHANGED <<stack, frozenData, random>>

GetTraceStateString(b) ==
    /\ Write
    /\ Called(b, "getTraceStateString", <<>>, getTraceStateString(b))
    /\ heap' = FreezeTraceState(b)
    /\ UNCHANGED <<stack, frozenData, random>>

\* Object.freeze(currentContext.data ?? null) freezes the payload object
GetContextData(b) ==
    /\ Write
    /\ Called(b, "getContextData", <<>>, getContextData(b))
    /\ frozenData' = IF HasStore(b) /\ getStore(b).data # Undefined
                      THEN frozenData \cup {getStore(b).data}
                      ELSE frozenData
    /\ UNCHANGED <<stack, heap, random>>

\* C15 mutant: data is only set on a context that has none yet
SetContextDataOnce(b, data) ==
    /\ Write
    /\ Called(b, "setContextData", <<data>>, setContextData(b, data))
    /\ stack' = IF HasStore(b) /\ getStore(b).data = Undefined
                THEN SetStoreField(b, "data", data) ELSE stack
    /\ UNCHANGED <<heap, frozenData, random>>

SetContextData(b, data) ==
    /\ Write
    /\ Called(b, "setContextData", <<data>>, setContextData(b, data))
    /\ stack' = IF HasStore(b) THEN SetStoreField(b, "data", data) ELSE stack
    /\ UNCHANGED <<heap, frozenData, random>>

SetTraceStateProperty(b, key, value) ==
    /\ Write
    /\ Called(b, "setTraceStateProperty", <<key, value>>,
              setTraceStateProperty(b, key, value))
    /\ IF ~HasStore(b) THEN UNCHANGED <<stack, heap>>
       ELSE IF getStore(b).traceState = Undefined
       THEN \* currentContext.traceState = {}, then the assignment
            /\ stack' = SetStoreField(b, "traceState", Obj(NewObj))
            /\ heap' = [o \in DOMAIN heap \cup {NewObj} |->
                           IF o = NewObj
                           THEN [entries |-> <<<<key, value>>>>, frozen |-> FALSE]
                           ELSE heap[o]]
       ELSE /\ heap' = IF heap[getStore(b).traceState[2]].frozen THEN heap
                       ELSE [heap EXCEPT ![getStore(b).traceState[2]].entries =
                                SetEntry(@, key, value)]
            /\ UNCHANGED stack
    /\ UNCHANGED <<frozenData, random>>

DeleteTraceStateProperty(b, key) ==
    /\ Write
    /\ Called(b, "deleteTraceStateProperty", <<key>>,
              deleteTraceStateProperty(b, key))
    /\ heap' = IF HasStore(b) /\ getStore(b).traceState # Undefined
                  /\ ~heap[getStore(b).traceState[2]].frozen
               THEN [heap EXCEPT ![getStore(b).traceState[2]].entries =
                        DeleteEntry(@, key)]
               ELSE heap
    /\ UNCHANGED <<stack, frozenData, random>>

\* completions of the work a span wraps
WorkCompletions == {Return(Num(1)), Throw("WorkError")}

Init ==
    /\ stack = [b \in Branches |-> <<>>]
    /\ heap = InitialHeap
    /\ frozenData = {}
    /\ random = 0
    /\ writes = 0
    /\ last = [branch |-> "b1", op |-> "createTracerComponent", args |-> <<>>,
               out |-> Return(Undefined)]

\* what the code running on branch b may do next
Step(b) ==
    \/ \E name \in SpanNames, seed \in SeedNames \cup {NoSeed} : span(b, name, seed)
    \/ \E c \in WorkCompletions : spanExit(b, c)
    \/ IsInsideOfTraceSpan(b)
    \/ GetSpanId(b)
    \/ GetTrace(b)
    \/ GetTraceString(b)
    \/ GetTraceChild(b)
    \/ GetTraceChildString(b)
    \/ GetTraceState(b)
    \/ GetTraceStateString(b)
    \/ GetContextData(b)
    \/ \E data \in DataInputs : SetContextData(b, data)
    \/ \E kv \in SetInputs : SetTraceStateProperty(b, kv[1], kv[2])
    \/ \E key \in Keys : DeleteTraceStateProperty(b, key)

\* A program with one execution branch (every call is made synchronously
\* from the main branch).
Next == Step("b1")
Spec == Init /\ [][Next]_vars

\* A program whose branches run concurrently: their steps interleave.
NextConcurrent == \E b \in Branches : Step(b)
SpecConcurrent == Init /\ [][NextConcurrent]_vars

\* =================================================================== claims
Top(b)       == stack[b][Len(stack[b])]
Enclosing(b) == stack[b][Len(stack[b]) - 1].ctx
Nested(b)    == Len(stack[b]) > 1
ThrowingMembers ==
    {"getSpanId", "getTrace", "getTraceString", "getTraceChild",
     "getTraceChildString", "getTraceState", "getTraceStateString",
     "getContextData", "setContextData", "setTraceStateProperty",
     "deleteTraceStateProperty"}

\* C1: spans running concurrently on different branches are isolated: the
\* spans bound on two branches never have the same id, and no step of one
\* branch changes anything the accessors of another branch return (span id,
\* trace fields, trace state contents, data).
C1_Isolation ==
    [][\A b \in Branches :
          /\ \A c \in Branches \ {b} :
                HasStore(b)' /\ HasStore(c)' => getStore(b).id' # getStore(c).id'
          /\ last'.branch # b => Binding(b)' = Binding(b)]_vars

\* C2: when a span finishes, by a return or by a raise, the binding of its
\* branch is what it was immediately before the span was entered: no context,
\* or the enclosing context with the id, trace fields, trace state and data
\* it had then.
C2_ExitRestoresBinding ==
    [][\A b \in Branches :
          last'.op = "spanExit" /\ last'.branch = b
              => Binding(b)' = Top(b).before]_vars

\* C3: a span nested without a seed leaves the record of its enclosing span
\* alone: when it exits, getTraceState() and getContextData() of the
\* enclosing span return what they returned before it was entered.
C3_ChildNeverMutatesParent ==
    [][\A b \in Branches :
          /\ last'.op = "spanExit" /\ last'.branch = b
          /\ Nested(b) /\ Top(b).seed = NoSeed
          => /\ getTraceState(b)' = Return(Top(b).before.view.traceState)
             /\ getContextData(b)' = Return(Top(b).before.view.data)]_vars

\* C4: with no span bound on the branch, each accessor and mutator raises
\* NotInSpanError and leaves no bound state behind: the branch still has no
\* context, isInsideOfTraceSpan() is still false, no object was written.
C4_NotInSpan ==
    [][\A b \in Branches :
          ~HasStore(b) /\ last'.branch = b /\ last'.op \in ThrowingMembers
              => /\ last'.out = Throw(NotInSpanError)
                 /\ ~HasStore(b)'
                 /\ isInsideOfTraceSpan(b)' = Return(Bool(FALSE))
                 /\ heap' = heap /\ frozenData' = frozenData
                 /\ random' = random]_vars

C4_Witness ==
    /\ random > 0 /\ ~HasStore("b1")
    /\ last.op = "deleteTraceStateProperty"
    /\ last.out = Throw(NotInSpanError)

\* C5: a seed takes precedence over the enclosing span: a span entered with
\* a seed while another span is bound takes parentId, traceId, version,
\* traceFlags (as numbers), traceState and data from the seed, and nothing
\* from the enclosing span.
C5_SeedPrecedence ==
    \A b \in Branches :
        /\ last.op = "span" /\ last.branch = b
        /\ last.args[2] # NoSeed /\ Nested(b)
        => LET c == getStore(b)
               S == seeds[last.args[2]]
           IN  /\ c.parentId = S.parentId
               /\ c.traceId = S.traceId
               /\ c.version = Number(S.version)
               /\ c.traceFlags = Number(S.traceFlags)
               /\ c.traceState = S.traceState
               /\ c.data = S.data

C5_Witness ==
    /\ last.op = "span" /\ Len(stack["b1"]) = 2
    /\ Top("b1").seed = "s2"
    /\ stack["b1"][1].seed = NoSeed
    /\ stack["b1"][1].ctx.traceState # Undefined
    /\ Top("b1").ctx.traceState = Undefined

\* C6: a span entered without a seed inside of a span whose traceId is X has
\* traceId X and parentId X, and the version and traceFlags of the enclosing
\* span; every span of a chain of seedless nested spans has the traceId of
\* the span the chain starts from.
C6_NestedKeepsTraceId ==
    \A b \in Branches :
        /\ Nested(b) /\ Top(b).seed = NoSeed
            => /\ getTrace(b).value.traceId = Enclosing(b).traceId
               /\ getTrace(b).value.parentId = Enclosing(b).traceId
               /\ getTrace(b).value.version = Enclosing(b).version
               /\ getTrace(b).value.traceFlags = Enclosing(b).traceFlags
        /\ \A i \in 1..Len(stack[b]) :
              (\A j \in (i + 1)..Len(stack[b]) : stack[b][j].seed = NoSeed)
                  => getTrace(b).value.traceId = stack[b][i].ctx.traceId

C6_Witness ==
    /\ Len(stack["b1"]) = 3
    /\ stack["b1"][2].seed = NoSeed /\ stack["b1"][3].seed = NoSeed
    /\ last.op = "getTrace"
    /\ last.out.value.traceId = stack["b1"][1].ctx.traceId

\* C7: inside of a span entered without a seed from within an enclosing
\* span, getTrace().parentId is the value getSpanId() returns in the
\* enclosing span.
C7_ParentIdIsEnclosingSpanId ==
    \A b \in Branches :
        Nested(b) /\ Top(b).seed = NoSeed
            => getTrace(b).value.parentId = Enclosing(b).id

\* C8: a span entered with no seed and no enclosing span has the invalid
\* span id as parentId, a traceId generated at that entry, version 0 and
\* traceFlags 0, no trace state and no data.
C8_RootSpan ==
    \A b \in Branches :
        /\ last.op = "span" /\ last.branch = b
        /\ last.args[2] = NoSeed /\ Len(stack[b]) = 1
        => /\ getTrace(b).value.parentId = INVALID_SPAN_ID
           \* one of the two ids this entry drew, the last two of the run
           /\ getTrace(b).value.traceId
                 \in {generateTraceId(random - 1), generateTraceId(random)}
           /\ getTrace(b).value.version = Num(0)
           /\ getTrace(b).value.traceFlags = Num(0)
           /\ getTraceState(b) = Return(Null)
           /\ getContextData(b) = Return(Null)

C8_Witness ==
    /\ last.op = "span" /\ last.args[2] = NoSeed
    /\ Len(stack["b1"]) = 1 /\ random = 3
    /\ getStore("b1").traceId = TraceId(2)

\* C9: inside of any span, getTraceChild() returns the traceId, version and
\* traceFlags getTrace() returns, and as parentId the value getSpanId()
\* returns.
C9_TraceChild ==
    \A b \in Branches :
        last.op = "getTraceChild" /\ last.branch = b /\ HasStore(b)
            => /\ last.out.kind = "return"
               /\ last.out.value.traceId = getTrace(b).value.traceId
               /\ last.out.value.version = getTrace(b).value.version
               /\ last.out.value.traceFlags = getTrace(b).value.traceFlags
               /\ last.out.value.parentId = getSpanId(b).value

C9_Witness ==
    /\ last.op = "getTraceChild" /\ Nested("b1")
    /\ last.out.kind = "return"
    /\ last.out.value.parentId = Top("b1").ctx.id
    /\ last.out.value.parentId # getTrace("b1").value.parentId

\* C10: inside of a span entered with a seed, getTrace() returns the
\* version, traceId, parentId and traceFlags the seed holds, each equal to
\* the value supplied.
C10_SeededTrace ==
    \A b \in Branches :
        last.op = "getTrace" /\ last.branch = b /\ HasStore(b)
        /\ Top(b).seed # NoSeed
            => /\ last.out.value.version = seeds[Top(b).seed].version
               /\ last.out.value.traceId = seeds[Top(b).seed].traceId
               /\ last.out.value.parentId = seeds[Top(b).seed].parentId
               /\ last.out.value.traceFlags = seeds[Top(b).seed].traceFlags

\* C11: inside of a span entered with a seed, getTraceString() is
\* buildTraceString of the seed: the version-traceId-parentId-flags rendering
\* of the seed's own fields.
C11_SeededTraceString ==
    \A b \in Branches :
        last.op = "getTraceString" /\ last.branch = b /\ HasStore(b)
        /\ Top(b).seed # NoSeed
            => last.out = Return(buildTraceString(seeds[Top(b).seed]))

\* the value the mapping `entries` holds for key, Undefined when it has none
ValueOf(entries, key) ==
    IF HasKey(entries, key) THEN Str(entries[IndexOf(entries, key, 1)][2])
    ELSE Undefined

\* C12: inside of a span, whatever calls were made before (reads of the
\* trace state included), setTraceStateProperty(k, v) completes without an
\* error and the trace state then maps k to v.
C12_SetThenGet ==
    \A b \in Branches :
        last.op = "setTraceStateProperty" /\ last.branch = b /\ HasStore(b)
            => /\ last.out = Return(Undefined)
               /\ getTraceState(b).value # Null
               /\ ValueOf(getTraceState(b).value[2], last.args[1])
                      = Str(last.args[2])

\* C13: inside of a span, whatever calls were made before (reads of the
\* trace state included), deleteTraceStateProperty(k) does not raise, and k
\* is absent from the trace state afterwards.
C13_DeleteNeverRaises ==
    \A b \in Branches :
        last.op = "deleteTraceStateProperty" /\ last.branch = b /\ HasStore(b)
            => /\ last.out = Return(Undefined)
               /\ \/ getTraceState(b).value = Null
                  \/ ~HasKey(getTraceState(b).value[2], last.args[1])

\* the tracestate header: key=value pairs joined by single commas
RECURSIVE TraceStateHeader(_, _)
TraceStateHeader(entries, index) ==
    IF index > Len(entries) THEN <<>>
    ELSE <<entries[index][1], "=", entries[index][2]>>
         \o (IF index # Len(entries) THEN <<",">> ELSE <<>>)
         \o TraceStateHeader(entries, index + 1)

\* C14: inside of a span, getTraceStateString() is the entries of the trace
\* state rendered as key=value pairs joined by single commas in iteration
\* order, and undefined when the mapping is absent or empty.
C14_TraceStateString ==
    \A b \in Branches :
        last.op = "getTraceStateString" /\ last.branch = b /\ HasStore(b)
            => last.out =
                 IF getTraceState(b).value = Null
                    \/ Len(getTraceState(b).value[2]) = 0
                 THEN Return(Undefined)
                 ELSE Return(Text(TraceStateHeader(getTraceState(b).value[2], 1)))

\* C15: inside of a span, setContextData(v) completes normally and
\* getContextData() then returns v and nothing else, whatever the data was
\* before: none, the data of a seed, data a getContextData() returned (and
\* froze) earlier.
C15_SetContextDataReplaces ==
    \A b \in Branches :
        last.op = "setContextData" /\ last.branch = b /\ HasStore(b)
            => /\ last.out = Return(Undefined)
               /\ getContextData(b) = Return(last.args[1])

C15_Witness ==
    /\ last.op = "setContextData" /\ HasStore("b1")
    /\ Top("b1").seed = "s2"
    /\ seeds["s2"].data \in frozenData
    /\ seeds["s2"].data # Data(2)
    /\ getContextData("b1") = Return(Data(2))

\* C16: isInsideOfTraceSpan() never raises: it returns false when the branch
\* has no span bound (before any span and after the last one exited) and
\* true inside of every span, root, nested or entered with a complete seed.
C16_IsInside ==
    /\ \A b \in Branches :
          /\ isInsideOfTraceSpan(b) = Return(Bool(HasStore(b)))
          /\ HasStore(b) => /\ getStore(b).parentId # Undefined
                            /\ getStore(b).traceId # Undefined
                            /\ getStore(b).traceFlags # Undefined
                            /\ getStore(b).version # Undefined
    /\ last.op = "isInsideOfTraceSpan"
          => last.out = Return(Bool(HasStore(last.branch)))

C16_Witness ==
    /\ last.op = "isInsideOfTraceSpan" /\ HasStore("b1")
    /\ Top("b1").seed = "s1"
    /\ getStore("b1").version = Num(0)
    /\ last.out = Return(Bool(TRUE))

\* C17: span completes as its work completes: it returns the value the work
\* returned, and raises what the work raised.
C17_SpanPassesCompletion ==
    last.op = "spanExit" => last.out = last.args[1]

C17_Witness ==
    /\ last.op = "spanExit"
    /\ last.args[1] = Throw("WorkError")
    /\ last.out = Throw("WorkError")

\* the members that read
Getters ==
    {"isInsideOfTraceSpan", "getSpanId", "getTrace", "getTraceString",
     "getTraceChild", "getTraceChildString", "getTraceState",
     "getTraceStateString", "getContextData"}

\* what the accessors of branch b complete with in the current state
Reads(b) ==
    [isInsideOfTraceSpan |-> isInsideOfTraceSpan(b),
     getSpanId           |-> getSpanId(b),
     getTrace            |-> getTrace(b),
     getTraceString      |-> getTraceString(b),
     getTraceChild       |-> getTraceChild(b),
     getTraceChildString |-> getTraceChildString(b),
     getTraceState       |-> getTraceState(b),
     getTraceStateString |-> getTraceStateString(b),
     getContextData      |-> getContextData(b)]

\* what the mutators of branch b would complete with in the current state
Outcomes(b) ==
    [setContextData |-> [d \in DataInputs |-> setContextData(b, d)],
     setTraceStateProperty |->
         [kv \in SetInputs |-> setTraceStateProperty(b, kv[1], kv[2])],
     deleteTraceStateProperty |->
         [k \in Keys |-> deleteTraceStateProperty(b, k)]]

\* C18: while the work of a span is suspended, what its accessors will return
\* on resumption does not depend on what the other branches do meanwhile
\* (enter, write in, exit spans): no step of another branch changes what an
\* accessor of the suspended branch completes with when it is next called;
\* and a branch with no span still has none after the steps of the others.
\* Reads(b) is what the first call made after the resumption returns; the
\* suspended branch itself makes no call in between.
C18_SuspendedKeepsContext ==
    [][\A b \in Branches :
          last'.branch # b
              => /\ HasStore(b)' = HasStore(b)
                 /\ Reads(b)' = Reads(b)]_vars

\* C19: the getters are pure: a call of a getter leaves alone what every
\* later getter returns and what every later setContextData,
\* setTraceStateProperty and deleteTraceStateProperty completes with.
C19_GettersArePure ==
    [][last'.op \in Getters
          => \A b \in Branches :
                /\ Reads(b)' = Reads(b)
                /\ Outcomes(b)' = Outcomes(b)]_vars

\* C20: the trace state of a seed record is left as the caller made it by
\* whatever the spans entered with it do, so that the next span entered with
\* the same seed starts from the original entries.
C20_SeedTraceStateUnchanged ==
    \A s \in SeedNames :
        seeds[s].traceState # Undefined
            => heap[seeds[s].traceState[2]].entries
                   = InitialHeap[seeds[s].traceState[2]].entries

\* C21: a span entered without a seed inside of a span starts with no data,
\* whatever data the enclosing span holds, and with the trace state of the
\* enclosing span; its getContextData() stays null until the span itself
\* calls setContextData.
C21_DataNotInherited ==
    [][\A b \in Branches :
          /\ /\ last'.op = "span" /\ last'.branch = b
             /\ last'.args[2] = NoSeed /\ HasStore(b)
             => /\ getContextData(b)' = Return(Null)
                /\ getTraceState(b)' = getTraceState(b)
          /\ /\ Nested(b) /\ Top(b).seed = NoSeed
             /\ getContextData(b) = Return(Null)
             /\ Len(stack[b])' = Len(stack[b])
             /\ ~(last'.op = "setContextData" /\ last'.branch = b)
             => getContextData(b)' = Return(Null)]_vars

C21_Witness ==
    /\ last.op = "getTraceState" /\ Len(stack["b1"]) = 2
    /\ Top("b1").seed = NoSeed
    /\ stack["b1"][1].seed = "s2"
    /\ stack["b1"][1].ctx.data = Data(2)
    /\ getContextData("b1") = Return(Null)

\* the members that write
Mutators == {"setContextData", "setTraceStateProperty", "deleteTraceStateProperty"}

\* the value for key in what getTraceState completed with
Lookup(completion, key) ==
    IF completion.value = Null THEN Undefined
    ELSE ValueOf(completion.value[2], key)

\* C22: the mutators change only what they name: setTraceStateProperty(k, v)
\* and deleteTraceStateProperty(k) leave the other keys and the data alone,
\* setContextData leaves the trace state alone, and after each of the three
\* getSpanId, getTrace and getTraceChild return what they returned before.
C22_MutatorsFrame ==
    [][\A b \in Branches :
          last'.op \in Mutators /\ last'.branch = b /\ HasStore(b)
              => /\ getSpanId(b)' = getSpanId(b)
                 /\ getTrace(b)' = getTrace(b)
                 /\ getTraceChild(b)' = getTraceChild(b)
                 /\ last'.op = "setContextData"
                        => getTraceState(b)' = getTraceState(b)
                 /\ last'.op # "setContextData"
                        => /\ getContextData(b)' = getContextData(b)
                           /\ \A k \in Keys \ {last'.args[1]} :
                                 Lookup(getTraceState(b)', k)
                                     = Lookup(getTraceState(b), k)]_vars

C22_Witness ==
    /\ last.op = "deleteTraceStateProperty" /\ last.args = <<"aKey">>
    /\ last.out = Return(Undefined)
    /\ HasStore("b1")
    /\ getTraceState("b1") = Return(Map(<<<<"anotherKey", "anotherValue">>>>))

\* the span ids of the contexts bound in the current state
BoundIds ==
    {stack[p[1]][p[2]].ctx.id :
        p \in {q \in Branches \X (1..MaxIds) : q[2] <= Len(stack[q[1]])}}

\* C23: a span entry binds a context whose id is the draw the generator
\* makes at that entry: it is not the id of a span bound anywhere, not an id
\* drawn before, not a field of the seed or of the enclosing span.  The id of
\* a bound context never changes while the span lasts, spans nested in it
\* entered and exited included, and no two bound contexts share an id.
C23_FreshStableId ==
    [][\A b \in Branches :
          /\ last'.op = "span" /\ last'.branch = b
             => /\ random' > random
                /\ getSpanId(b)' = Return(generateSpanId(random'))
                /\ getStore(b).id' \notin BoundIds
                /\ last'.args[2] # NoSeed
                      => getStore(b).id' \notin
                            {seeds[last'.args[2]].parentId,
                             seeds[last'.args[2]].traceId}
                /\ HasStore(b)
                      => getStore(b).id' \notin
                            {getStore(b).id, getStore(b).parentId,
                             getStore(b).traceId}
          /\ \A i \in 1..Len(stack[b]) :
                i <= Len(stack[b])'
                    => stack[b][i].ctx.id' = stack[b][i].ctx.id
          /\ \A c \in Branches, i \in 1..MaxIds, j \in 1..MaxIds :
                /\ i <= Len(stack[b])' /\ j <= Len(stack[c])'
                /\ stack[b][i].ctx.id' = stack[c][j].ctx.id'
                => b = c /\ i = j]_vars

C23_Witness ==
    /\ last.op = "spanExit" /\ random = MaxIds
    /\ Len(stack["b1"]) = 1
    /\ getSpanId("b1") = Return(generateSpanId(2))

====
